---- MODULE Spec2Model ----
(***************************************************************************)
(* PrusaLinkPrinter (src/prusalink_api/printer.py): an adapter that        *)
(* implements the IPrinter contract over the PrusaLink HTTP API.           *)
(*                                                                         *)
(* The state is the adapter object's fields plus a record of the last      *)
(* public call (its arguments, the HTTP exchanges it made and its          *)
(* outcome).  Every public method is one action; the responses of the      *)
(* remote device are the action's inputs.  repeated records that the last  *)
(* call had the operation, arguments and responses of the call before it,  *)
(* uploaded that upload_file has been called.                              *)
(*                                                                         *)
(* Values.  Python/JSON values are tagged records.  A JSON object is a     *)
(* record that carries every key the code reads; a key that the document   *)
(* does not contain holds Absent.  Numbers that the device reports as      *)
(* decimals (progress, speed, temperatures, nozzle diameter) are kept in   *)
(* tenths: PyNum(478) is 47.8.                                             *)
(***************************************************************************)
EXTENDS Integers, Sequences, FiniteSets, TLC

VARIABLES ip_address, access_code, serial, port, headers,
          last_status_data, last_job_data, last_info_data,
          call, repeated, uploaded

vars == <<ip_address, access_code, serial, port, headers,
          last_status_data, last_job_data, last_info_data, call, repeated,
          uploaded>>

config == <<ip_address, access_code, serial, port, headers>>

----------------------------------------------------------------------------
(* Bounds of the model. *)

\* job identifiers the device hands out are 1..MaxJobId
MaxJobId == 2
\* snapshot and upload payloads have at most MaxContentLen bytes
MaxContentLen == 2

----------------------------------------------------------------------------
(* Python values *)

Absent == [t |-> "absent"]
PyNone == [t |-> "None"]
PyBool(b) == [t |-> "bool", b |-> b]
PyInt(i) == [t |-> "int", i |-> i]
PyNum(n) == [t |-> "num", tenths |-> n]
PyStr(s) == [t |-> "str", s |-> s]
PyEnum(e) == [t |-> "enum", e |-> e]
PyEmptyList == [t |-> "list", items |-> <<>>]
PyEmptyDict == [t |-> "dict", keys |-> {}]

Return(v) == [kind |-> "return", value |-> v]
Raise(e) == [kind |-> "raise", value |-> [t |-> "exc", name |-> e]]

\* dict.get(key): the value, or None when the key is missing
Get(obj, key) == IF obj[key] = Absent THEN PyNone ELSE obj[key]

\* dict.get(key, default)
GetOr(obj, key, default) == IF obj[key] = Absent THEN default ELSE obj[key]

\* key in dict
Has(obj, key) == obj[key] # Absent

\* the keys of a JSON object that are present
Keys(obj) == {k \in DOMAIN obj \ {"t"} : obj[k] # Absent}

\* bool(v) as Python's `if v` and `a and b` take it
Truthy(v) ==
    CASE v.t = "absent" -> FALSE
      [] v.t = "None" -> FALSE
      [] v.t = "bool" -> v.b
      [] v.t = "int" -> v.i # 0
      [] v.t = "num" -> v.tenths # 0
      [] v.t = "str" -> v.s # ""
      [] v.t = "obj" -> Keys(v) # {}
      [] OTHER -> TRUE

\* IntOf with round() in place of int(): rounds half up
IntOf_rounding(v) == PyInt((v.tenths + 5) \div 10)

\* int(x) of a number kept in tenths: truncation toward zero
IntOf(v) ==
    IF v.tenths >= 0 THEN PyInt(v.tenths \div 10)
    ELSE PyInt(-((-v.tenths) \div 10))

\* float(x)
FloatOf(v) == IF v.t = "int" THEN PyNum(10 * v.i) ELSE v

----------------------------------------------------------------------------
(* JSON documents of the three resources *)

PrinterObj(state, speed, bed, nozzle) ==
    [t |-> "obj", state |-> state, speed |-> speed,
     temp_bed |-> bed, temp_nozzle |-> nozzle]

JobObj(progress, remaining) ==
    [t |-> "obj", progress |-> progress, time_remaining |-> remaining]

StatusDoc(printer, job) == [t |-> "obj", printer |-> printer, job |-> job]

FileObj(display, name) == [t |-> "obj", display_name |-> display, name |-> name]

JobDoc(id, file) == [t |-> "obj", id |-> id, file |-> file]

InfoDoc(diameter) == [t |-> "obj", nozzle_diameter |-> diameter]

\* the device-state strings the two state getters know
KnownStates ==
    {"PRINTING", "PAUSED", "FINISHED", "STOPPED", "ERROR",
     "IDLE", "READY", "BUSY", "ATTENTION"}

\* other strings a status document may carry
OtherStates == {"printing", "", "OFFLINE"}

DefaultPrinter == PrinterObj(PyStr("PRINTING"), PyNum(1005), PyNum(600), PyNum(2150))
DefaultJob == JobObj(PyNum(478), PyInt(60))

Printers ==
    {PrinterObj(PyStr(s), PyNum(1005), PyNum(600), PyNum(2150)) :
        s \in KnownStates \cup OtherStates}
    \cup {PrinterObj(Absent, PyNum(1005), PyNum(600), PyNum(2150)),
          PrinterObj(PyNone, PyNone, PyNone, PyNone),
          PrinterObj(PyStr("IDLE"), Absent, Absent, Absent),
          Absent, PyNone}

Jobs ==
    {Absent, PyNone, JobObj(Absent, Absent), DefaultJob,
     JobObj(PyNum(-15), Absent), JobObj(PyNum(0), PyInt(0)),
     JobObj(PyNone, PyInt(60)), JobObj(Absent, PyInt(60))}

StatusDocs ==
    {StatusDoc(p, DefaultJob) : p \in Printers}
    \cup {StatusDoc(DefaultPrinter, j) : j \in Jobs}
    \cup {StatusDoc(Absent, Absent)}

CoreStatusDocs ==
    {StatusDoc(DefaultPrinter, DefaultJob),
     StatusDoc(PrinterObj(PyStr("PAUSED"), Absent, Absent, Absent), PyNone),
     StatusDoc(Absent, Absent)}

Files ==
    {Absent, PyNone, FileObj(Absent, Absent),
     FileObj(PyStr("Benchy"), PyStr("BENCHY~1.GCO")),
     FileObj(Absent, PyStr("BENCHY~1.GCO"))}

JobIds == {PyInt(i) : i \in 1..MaxJobId}

JobDocs ==
    {JobDoc(id, FileObj(PyStr("Benchy"), PyStr("BENCHY~1.GCO"))) : id \in JobIds}
    \cup {JobDoc(PyInt(1), f) : f \in Files}
    \cup {JobDoc(Absent, FileObj(Absent, PyStr("BENCHY~1.GCO"))),
          JobDoc(Absent, Absent)}

CoreJobDocs ==
    {JobDoc(PyInt(MaxJobId), FileObj(PyStr("Benchy"), PyStr("BENCHY~1.GCO"))),
     JobDoc(Absent, FileObj(Absent, PyStr("BENCHY~1.GCO")))}

InfoDocs ==
    {InfoDoc(PyNum(4)), InfoDoc(PyInt(1)), InfoDoc(PyNone), InfoDoc(Absent)}

CoreInfoDocs == {InfoDoc(PyNum(4)), InfoDoc(Absent)}

----------------------------------------------------------------------------
(* Responses of the remote device, as the requests library hands them over *)

\* a body that is empty or is not JSON
NoJson == [t |-> "nojson"]

TransportErrors == {"ConnectionError", "Timeout"}

HttpStatuses == {200, 201, 204, 302, 404, 500}

TransportError(e) == [kind |-> "error", exc |-> e]
\* ctype is the Content-Type header, "" when the response carries none
Http(status, ctype, body) ==
    [kind |-> "http", status |-> status, ctype |-> ctype, body |-> body]

\* what a GET of a JSON resource may be answered with: a document comes
\* with status 200; the other answers carry a body that is not JSON
JsonResponses(docs) ==
    {TransportError(e) : e \in TransportErrors}
    \cup {Http(s, "", NoJson) : s \in HttpStatuses}
    \cup {Http(200, "application/json", d) : d \in docs}

CoreJsonResponses(docs) ==
    {TransportError("ConnectionError"), Http(500, "", NoJson),
     Http(204, "", NoJson)}
    \cup {Http(200, "application/json", d) : d \in docs}

\* what an action request (PUT, POST, DELETE) may be answered with
ActionResponses ==
    {TransportError(e) : e \in TransportErrors}
    \cup {Http(s, "", NoJson) : s \in HttpStatuses}

CoreActionResponses ==
    {TransportError("Timeout"), Http(204, "", NoJson),
     Http(200, "", NoJson), Http(404, "", NoJson)}

\* requests.get/put/post/delete raise for a transport error;
\* response.raise_for_status() raises HTTPError for 4xx and 5xx
RaisesRequestException(resp) ==
    \/ resp.kind = "error"
    \/ resp.kind = "http" /\ resp.status >= 400 /\ resp.status < 600

\* response.json() raises requests.exceptions.JSONDecodeError, which is a
\* RequestException, when the body is empty or is not JSON
JsonFails(resp) == resp.body = NoJson

Request(method, url, hdrs, data) ==
    [method |-> method, url |-> url, headers |-> hdrs, data |-> data]

Url(path) == "http://" \o ip_address \o ":" \o port \o path

----------------------------------------------------------------------------
(* The three fetch helpers: the new cache value and the returned value *)

Fetched(data, ret) == [data |-> data, ret |-> ret]

\* fetch_status_data that hands out the snapshot of the fetch before
fetch_status_data_previous(resp) ==
    IF RaisesRequestException(resp) \/ JsonFails(resp)
    THEN Fetched(last_status_data, PyNone)
    ELSE Fetched(resp.body, last_status_data)

\* fetch_status_data that drops the snapshot when the fetch fails
fetch_status_data_clears(resp) ==
    IF RaisesRequestException(resp) \/ JsonFails(resp)
    THEN Fetched(PyNone, PyNone)
    ELSE Fetched(resp.body, resp.body)

fetch_status_data(resp) ==
    IF RaisesRequestException(resp) \/ JsonFails(resp)
    THEN Fetched(last_status_data, PyNone)
    ELSE Fetched(resp.body, resp.body)

\* fetch_job_data without the reset on 204: the job last seen is kept and returned
fetch_job_data_keeps_job(resp) ==
    IF RaisesRequestException(resp)
    THEN Fetched(last_job_data, PyNone)
    ELSE IF resp.status = 204
    THEN Fetched(last_job_data, last_job_data)
    ELSE IF JsonFails(resp)
    THEN Fetched(last_job_data, PyNone)
    ELSE Fetched(resp.body, resp.body)

\* fetch_job_data that falls back on the snapshot when the request fails
fetch_job_data_serves_stale(resp) ==
    IF RaisesRequestException(resp)
    THEN Fetched(last_job_data, last_job_data)
    ELSE IF resp.status = 204
    THEN Fetched(PyNone, PyNone)
    ELSE IF JsonFails(resp)
    THEN Fetched(last_job_data, last_job_data)
    ELSE Fetched(resp.body, resp.body)

fetch_job_data(resp) ==
    IF RaisesRequestException(resp)
    THEN Fetched(last_job_data, PyNone)
    ELSE IF resp.status = 204
    THEN Fetched(PyNone, PyNone)
    ELSE IF JsonFails(resp)
    THEN Fetched(last_job_data, PyNone)
    ELSE Fetched(resp.body, resp.body)

fetch_info_data(resp) ==
    IF RaisesRequestException(resp) \/ JsonFails(resp)
    THEN Fetched(last_info_data, PyNone)
    ELSE Fetched(resp.body, resp.body)

StatusRequest == Request("GET", Url("/api/v1/status"), headers, Absent)
JobRequest == Request("GET", Url("/api/v1/job"), headers, Absent)
InfoRequest == Request("GET", Url("/api/v1/info"), headers, Absent)

----------------------------------------------------------------------------
(* The record of a public call *)

\* fetched is what the fetch helper of the call returned to the method
\* (Absent when the method makes no fetch)
CallRecord(op, args, resps, reqs, fetched, outcome) ==
    [op |-> op, args |-> args, resps |-> resps, reqs |-> reqs,
     fetched |-> fetched, outcome |-> outcome]

\* a call of op that leaves the three snapshots as st, jb, nf
Finish(op, args, resps, reqs, fetched, outcome, st, jb, nf) ==
    /\ call' = CallRecord(op, args, resps, reqs, fetched, outcome)
    /\ repeated' = (call.op = op /\ call.args = args /\ call.resps = resps)
    /\ uploaded' = (uploaded \/ op = "upload_file")
    /\ last_status_data' = st
    /\ last_job_data' = jb
    /\ last_info_data' = nf
    /\ UNCHANGED config

\* a call whose one request is the status fetch; outcome is what the method
\* makes of the value the fetch returned
StatusCall(op, resp, outcome) ==
    LET f == fetch_status_data(resp)
    IN Finish(op, <<>>, <<resp>>, <<StatusRequest>>, f.ret, outcome,
              f.data, last_job_data, last_info_data)

JobCall(op, resp, outcome) ==
    LET f == fetch_job_data(resp)
    IN Finish(op, <<>>, <<resp>>, <<JobRequest>>, f.ret, outcome,
              last_status_data, f.data, last_info_data)

InfoCall(op, resp, outcome) ==
    LET f == fetch_info_data(resp)
    IN Finish(op, <<>>, <<resp>>, <<InfoRequest>>, f.ret, outcome,
              last_status_data, last_job_data, f.data)

----------------------------------------------------------------------------
(* Construction *)

Init ==
    /\ ip_address = "192.168.1.20"
    /\ access_code = "secret"
    /\ serial = "SN0001"
    /\ port = ToString(80)
    /\ headers = ("X-Api-Key" :> "secret")
    /\ last_status_data = PyNone
    /\ last_job_data = PyNone
    /\ last_info_data = PyNone
    /\ call = CallRecord("__init__", <<>>, <<>>, <<>>, Absent, Return(PyNone))
    /\ repeated = FALSE
    /\ uploaded = FALSE

----------------------------------------------------------------------------
(* Telemetry getters *)

\* obj.get(key) on a value that is None raises AttributeError
GetAttr(obj, key) ==
    IF obj.t = "obj" THEN Return(Get(obj, key)) ELSE Raise("AttributeError")

get_time_result(status_data) ==
    IF Truthy(status_data) /\ Has(status_data, "job") /\ Truthy(status_data.job)
    THEN Return(Get(status_data.job, "time_remaining"))
    ELSE Return(PyNone)

get_time(R) ==
    \E resp \in R :
        StatusCall("get_time", resp,
            get_time_result(fetch_status_data(resp).ret))

get_percentage_result(status_data) ==
    IF Truthy(status_data) /\ Has(status_data, "job") /\ Truthy(status_data.job)
    THEN LET progress == Get(status_data.job, "progress")
         IN IF progress # PyNone THEN Return(IntOf(progress)) ELSE Return(PyNone)
    ELSE Return(PyNone)

get_percentage(R) ==
    \E resp \in R :
        StatusCall("get_percentage", resp,
            get_percentage_result(fetch_status_data(resp).ret))

\* GcodeStateOf with "READY" left out of the PREPARE list
GcodeStateOf_without_ready(state) ==
    IF state = PyStr("PRINTING") THEN PyEnum("GcodeState.RUNNING")
    ELSE IF state = PyStr("PAUSED") THEN PyEnum("GcodeState.PAUSE")
    ELSE IF state = PyStr("FINISHED") THEN PyEnum("GcodeState.FINISH")
    ELSE IF state = PyStr("STOPPED") THEN PyEnum("GcodeState.FAILED")
    ELSE IF state = PyStr("IDLE") THEN PyEnum("GcodeState.IDLE")
    ELSE IF state \in {PyStr("BUSY"), PyStr("ATTENTION")}
    THEN PyEnum("GcodeState.PREPARE")
    ELSE IF state = PyStr("ERROR") THEN PyEnum("GcodeState.FAILED")
    ELSE PyEnum("GcodeState.UNKNOWN")

GcodeStateOf(state) ==
    IF state = PyStr("PRINTING") THEN PyEnum("GcodeState.RUNNING")
    ELSE IF state = PyStr("PAUSED") THEN PyEnum("GcodeState.PAUSE")
    ELSE IF state = PyStr("FINISHED") THEN PyEnum("GcodeState.FINISH")
    ELSE IF state = PyStr("STOPPED") THEN PyEnum("GcodeState.FAILED")
    ELSE IF state = PyStr("IDLE") THEN PyEnum("GcodeState.IDLE")
    ELSE IF state \in {PyStr("BUSY"), PyStr("ATTENTION"), PyStr("READY")}
    THEN PyEnum("GcodeState.PREPARE")
    ELSE IF state = PyStr("ERROR") THEN PyEnum("GcodeState.FAILED")
    ELSE PyEnum("GcodeState.UNKNOWN")

get_state_result(status_data) ==
    IF Truthy(status_data) /\ Has(status_data, "printer")
    THEN LET state == GetAttr(status_data.printer, "state")
         IN IF state.kind = "raise" THEN state
            ELSE IF Truthy(state.value) THEN Return(GcodeStateOf(state.value))
            ELSE Return(PyEnum("GcodeState.UNKNOWN"))
    ELSE Return(PyEnum("GcodeState.UNKNOWN"))

get_state(R) ==
    \E resp \in R :
        StatusCall("get_state", resp,
            get_state_result(fetch_status_data(resp).ret))

\* get_print_speed_result that hands on the missing speed as None
get_print_speed_result_no_default(status_data) ==
    IF Truthy(status_data) /\ Has(status_data, "printer")
    THEN LET speed == GetAttr(status_data.printer, "speed")
         IN IF speed.kind = "raise" THEN speed
            ELSE IF speed.value # PyNone THEN Return(IntOf(speed.value))
            ELSE Return(PyNone)
    ELSE Return(PyNone)

get_print_speed_result(status_data) ==
    IF Truthy(status_data) /\ Has(status_data, "printer")
    THEN LET speed == GetAttr(status_data.printer, "speed")
         IN IF speed.kind = "raise" THEN speed
            ELSE IF speed.value # PyNone THEN Return(IntOf(speed.value))
            ELSE Return(PyInt(0))
    ELSE Return(PyInt(0))

get_print_speed(R) ==
    \E resp \in R :
        StatusCall("get_print_speed", resp,
            get_print_speed_result(fetch_status_data(resp).ret))

get_bed_temperature_result(status_data) ==
    IF Truthy(status_data) /\ Has(status_data, "printer")
    THEN GetAttr(status_data.printer, "temp_bed")
    ELSE Return(PyNone)

get_bed_temperature(R) ==
    \E resp \in R :
        StatusCall("get_bed_temperature", resp,
            get_bed_temperature_result(fetch_status_data(resp).ret))

get_nozzle_temperature_result(status_data) ==
    IF Truthy(status_data) /\ Has(status_data, "printer")
    THEN GetAttr(status_data.printer, "temp_nozzle")
    ELSE Return(PyNone)

get_nozzle_temperature(R) ==
    \E resp \in R :
        StatusCall("get_nozzle_temperature", resp,
            get_nozzle_temperature_result(fetch_status_data(resp).ret))

PrintStateOf(state) ==
    IF state = PyStr("PRINTING") THEN PyEnum("PrintState.PRINTING")
    ELSE IF state = PyStr("PAUSED") THEN PyEnum("PrintState.PAUSED_USER")
    ELSE IF state = PyStr("FINISHED") THEN PyEnum("PrintState.IDLE")
    ELSE IF state = PyStr("STOPPED") THEN PyEnum("PrintState.IDLE")
    ELSE IF state = PyStr("ERROR") THEN PyEnum("PrintState.UNKNOWN")
    ELSE IF state = PyStr("IDLE") THEN PyEnum("PrintState.IDLE")
    ELSE IF state = PyStr("BUSY") THEN PyEnum("PrintState.UNKNOWN")
    ELSE IF state = PyStr("ATTENTION") THEN PyEnum("PrintState.UNKNOWN")
    ELSE IF state = PyStr("READY") THEN PyEnum("PrintState.IDLE")
    ELSE PyEnum("PrintState.UNKNOWN")

get_current_state_result(status_data) ==
    IF Truthy(status_data) /\ Has(status_data, "printer")
    THEN LET state == GetAttr(status_data.printer, "state")
         IN IF state.kind = "raise" THEN state
            ELSE IF Truthy(state.value) THEN Return(PrintStateOf(state.value))
            ELSE Return(PyEnum("PrintState.UNKNOWN"))
    ELSE Return(PyEnum("PrintState.UNKNOWN"))

get_current_state(R) ==
    \E resp \in R :
        StatusCall("get_current_state", resp,
            get_current_state_result(fetch_status_data(resp).ret))

nozzle_diameter_result(info_data) ==
    IF Truthy(info_data)
    THEN LET diameter == Get(info_data, "nozzle_diameter")
         IN IF diameter # PyNone THEN Return(FloatOf(diameter))
            ELSE Return(PyNum(0))
    ELSE Return(PyNum(0))

nozzle_diameter(R) ==
    \E resp \in R :
        InfoCall("nozzle_diameter", resp,
            nozzle_diameter_result(fetch_info_data(resp).ret))

get_file_name_result(job_data) ==
    IF Truthy(job_data) /\ Has(job_data, "file") /\ Truthy(job_data.file)
    THEN Return(GetOr(job_data.file, "display_name",
                      GetOr(job_data.file, "name", PyStr(""))))
    ELSE Return(PyStr(""))

get_file_name(R) ==
    \E resp \in R :
        JobCall("get_file_name", resp,
            get_file_name_result(fetch_job_data(resp).ret))

\* gcode_file() returns self.get_file_name()
gcode_file(R) ==
    \E resp \in R :
        JobCall("gcode_file", resp,
            get_file_name_result(fetch_job_data(resp).ret))

----------------------------------------------------------------------------
(* Print-job commands *)

\* Is204 that takes every answer raise_for_status lets through as success
Is204_any_success(resp) == ~RaisesRequestException(resp)

\* the commands' success test: no exception and status 204
Is204(resp) == ~RaisesRequestException(resp) /\ resp.status = 204

\* str(job_data['id'])
JobIdStr(job_data) == ToString(job_data.id.i)

\* stop, pause and resume: the job lookup, then the action on /job/{id}
JobCommand(op, method, suffix, lookups, answers) ==
    \E resp \in lookups :
        LET f == fetch_job_data(resp)
        IN IF Truthy(f.ret) /\ Has(f.ret, "id")
           THEN \E answer \in answers :
                    Finish(op, <<>>, <<resp, answer>>,
                           <<JobRequest,
                             Request(method,
                                     Url("/api/v1/job/" \o JobIdStr(f.ret) \o suffix),
                                     headers, Absent)>>,
                           f.ret, Return(PyBool(Is204(answer))),
                           last_status_data, f.data, last_info_data)
           ELSE Finish(op, <<>>, <<resp>>, <<JobRequest>>, f.ret,
                       Return(PyBool(FALSE)),
                       last_status_data, f.data, last_info_data)

stop_print(lookups, answers) ==
    JobCommand("stop_print", "DELETE", "", lookups, answers)

pause_print(lookups, answers) ==
    JobCommand("pause_print", "PUT", "/pause", lookups, answers)

resume_print(lookups, answers) ==
    JobCommand("resume_print", "PUT", "/resume", lookups, answers)

\* a call that touches none of the three snapshots
Plain(op, args, resps, reqs, outcome) ==
    Finish(op, args, resps, reqs, Absent, outcome,
           last_status_data, last_job_data, last_info_data)

PlateNumbers == {PyInt(1), PyStr("2")}

\* use_ams, ams_mapping, skip_objects, flow_calibration: the defaults of the
\* signature, and values that differ from each of them
PrintOptions ==
    {[use_ams |-> PyBool(TRUE), ams_mapping |-> PyNone,
      skip_objects |-> PyNone, flow_calibration |-> PyBool(TRUE)],
     [use_ams |-> PyBool(FALSE), ams_mapping |-> [t |-> "list", items |-> <<0, 1>>],
      skip_objects |-> [t |-> "list", items |-> <<7>>],
      flow_calibration |-> PyBool(FALSE)]}

start_print(filenames, answers) ==
    \E filename \in filenames, plate_number \in PlateNumbers,
       options \in PrintOptions, answer \in answers :
        Plain("start_print",
              <<PyStr(filename), plate_number, options.use_ams,
                options.ams_mapping, options.skip_objects,
                options.flow_calibration>>,
              <<answer>>,
              <<Request("POST", Url("/api/v1/files/usb" \o filename), headers,
                        Absent)>>,
              Return(PyBool(Is204(answer))))

----------------------------------------------------------------------------
(* File management *)

PyBytes(b) == [t |-> "bytes", bytes |-> b]

\* the byte values payloads are made of: the first byte of a PNG signature
\* and an ASCII letter
ByteVals == {137, 80}

RECURSIVE SeqsUpTo(_, _)
SeqsUpTo(S, n) ==
    IF n = 0 THEN {<<>>}
    ELSE LET shorter == SeqsUpTo(S, n - 1)
         IN shorter \cup {Append(q, x) : q \in shorter, x \in S}

Contents == SeqsUpTo(ByteVals, MaxContentLen)

UploadNames == {"ftp_upload.gcode", "a.gcode"}

RemotePaths == {"/usb/a.gcode", "/b.gcode"}

\* upload_file_result that takes every status raise_for_status lets through as success
upload_file_result_any_status(filename, answer) ==
    IF RaisesRequestException(answer) THEN Return(PyStr(""))
    ELSE Return(PyStr("/usb/" \o filename))

upload_file_result(filename, answer) ==
    IF RaisesRequestException(answer) THEN Return(PyStr(""))
    ELSE IF answer.status = 201 THEN Return(PyStr("/usb/" \o filename))
    ELSE Return(PyStr(""))

\* upload_file that adds the two headers to self.headers itself, not to a copy
upload_file_in_place(contents, filenames, answers) ==
    \E file_content \in contents, filename \in filenames, answer \in answers :
        LET request_headers ==
                ("Content-Type" :> "application/octet-stream")
                @@ ("Content-Length" :> ToString(Len(file_content)))
                @@ headers
        IN /\ call' = CallRecord("upload_file",
                                 <<PyBytes(file_content), PyStr(filename)>>,
                                 <<answer>>,
                                 <<Request("PUT",
                                           Url("/api/v1/files/usb/" \o filename),
                                           request_headers, PyBytes(file_content))>>,
                                 Absent, upload_file_result(filename, answer))
           /\ repeated' = (/\ call.op = "upload_file"
                           /\ call.args = <<PyBytes(file_content), PyStr(filename)>>
                           /\ call.resps = <<answer>>)
           /\ uploaded' = TRUE
           /\ headers' = request_headers
           /\ UNCHANGED <<ip_address, access_code, serial, port,
                          last_status_data, last_job_data, last_info_data>>

upload_file(contents, filenames, answers) ==
    \E file_content \in contents, filename \in filenames, answer \in answers :
        LET request_headers ==
                ("Content-Type" :> "application/octet-stream")
                @@ ("Content-Length" :> ToString(Len(file_content)))
                @@ headers
        IN Plain("upload_file", <<PyBytes(file_content), PyStr(filename)>>,
                 <<answer>>,
                 <<Request("PUT", Url("/api/v1/files/usb/" \o filename),
                           request_headers, PyBytes(file_content))>>,
                 upload_file_result(filename, answer))

\* delete_file_result without the except clause for transport errors
delete_file_result_uncaught(file_path, answer) ==
    IF answer.kind = "error" THEN Raise(answer.exc)
    ELSE IF RaisesRequestException(answer) THEN Return(PyStr(""))
    ELSE IF answer.status = 204 THEN Return(PyStr(file_path))
    ELSE Return(PyStr(""))

delete_file_result(file_path, answer) ==
    IF RaisesRequestException(answer) THEN Return(PyStr(""))
    ELSE IF answer.status = 204 THEN Return(PyStr(file_path))
    ELSE Return(PyStr(""))

delete_file(paths, answers) ==
    \E file_path \in paths, answer \in answers :
        Plain("delete_file", <<PyStr(file_path)>>, <<answer>>,
              <<Request("DELETE", Url("/api/v1/files/usb" \o file_path), headers,
                        Absent)>>,
              delete_file_result(file_path, answer))

----------------------------------------------------------------------------
(* Camera *)

\* 'image/png' in content_type, over the content types of the model
ContainsImagePng(ctype) == ctype \in {"image/png", "image/png; charset=binary"}

ContentTypes == {"image/png", "image/png; charset=binary", "image/jpeg", ""}

\* Base64 text is a sequence of alphabet indices 0..63, with 64 for '='
RECURSIVE b64encode(_)
b64encode(b) ==
    IF Len(b) = 0 THEN <<>>
    ELSE IF Len(b) = 1
    THEN <<b[1] \div 4, (b[1] % 4) * 16, 64, 64>>
    ELSE IF Len(b) = 2
    THEN <<b[1] \div 4, (b[1] % 4) * 16 + b[2] \div 16, (b[2] % 16) * 4, 64>>
    ELSE <<b[1] \div 4, (b[1] % 4) * 16 + b[2] \div 16,
           (b[2] % 16) * 4 + b[3] \div 64, b[3] % 64>>
         \o b64encode(SubSeq(b, 4, Len(b)))

RECURSIVE b64decode(_)
b64decode(c) ==
    IF Len(c) < 4 THEN <<>>
    ELSE LET first == c[1] * 4 + c[2] \div 16
             second == (c[2] % 16) * 16 + c[3] \div 4
             third == (c[3] % 4) * 64 + c[4]
         IN IF c[3] = 64 THEN <<first>>
            ELSE IF c[4] = 64 THEN <<first, second>>
            ELSE <<first, second, third>> \o b64decode(SubSeq(c, 5, Len(c)))

\* the str that .decode('utf-8') gives for Base64 text
B64Str(chars) ==
    IF chars = <<>> THEN PyStr("") ELSE [t |-> "b64str", chars |-> chars]

CameraResponses ==
    {TransportError(e) : e \in TransportErrors}
    \cup {Http(200, ct, PyBytes(c)) : ct \in ContentTypes, c \in Contents}
    \cup {Http(s, "image/png", PyBytes(<<137>>)) : s \in HttpStatuses}

CoreCameraResponses ==
    {TransportError("Timeout"), Http(404, "", PyBytes(<<>>)),
     Http(200, "image/png", PyBytes(<<137>>)),
     Http(200, "image/png", PyBytes(<<80>>)),
     Http(200, "image/jpeg", PyBytes(<<137>>))}

CameraRequest == Request("GET", Url("/api/v1/cameras/snap"), headers, Absent)

\* get_camera_frame_result without the test of the content type
get_camera_frame_result_any_content(resp) ==
    IF RaisesRequestException(resp) THEN PyStr("")
    ELSE IF resp.status = 200
    THEN B64Str(b64encode(resp.body.bytes))
    ELSE PyStr("")

get_camera_frame_result(resp) ==
    IF RaisesRequestException(resp) THEN PyStr("")
    ELSE IF resp.status = 200 /\ ContainsImagePng(resp.ctype)
    THEN B64Str(b64encode(resp.body.bytes))
    ELSE PyStr("")

get_camera_frame(R) ==
    \E resp \in R :
        Plain("get_camera_frame", <<>>, <<resp>>, <<CameraRequest>>,
              Return(get_camera_frame_result(resp)))

\* Image.open(BytesIO(image_bytes)) identifies a PNG by its signature, of
\* which the payloads of the model carry the first byte
ImageOpens(image_bytes) == Len(image_bytes) > 0 /\ image_bytes[1] = 137

\* get_camera_image_result that answers a missing frame with an empty image
get_camera_image_result_placeholder(base64_frame) ==
    IF Truthy(base64_frame)
    THEN LET image_bytes == b64decode(base64_frame.chars)
         IN IF ImageOpens(image_bytes)
            THEN Return([t |-> "image", data |-> image_bytes])
            ELSE Raise("UnidentifiedImageError")
    ELSE Return([t |-> "image", data |-> <<>>])

get_camera_image_result(base64_frame) ==
    IF Truthy(base64_frame)
    THEN LET image_bytes == b64decode(base64_frame.chars)
         IN IF ImageOpens(image_bytes)
            THEN Return([t |-> "image", data |-> image_bytes])
            ELSE Raise("UnidentifiedImageError")
    ELSE Raise("ValueError")

\* get_camera_image that asks for the frame a second time when the first
\* attempt gave none
get_camera_image_retries(R) ==
    \E resp \in R, again \in R :
        IF Truthy(get_camera_frame_result(resp))
        THEN Plain("get_camera_image", <<>>, <<resp>>, <<CameraRequest>>,
                   get_camera_image_result(get_camera_frame_result(resp)))
        ELSE Plain("get_camera_image", <<>>, <<resp, again>>,
                   <<CameraRequest, CameraRequest>>,
                   get_camera_image_result(get_camera_frame_result(again)))

get_camera_image(R) ==
    \E resp \in R :
        Plain("get_camera_image", <<>>, <<resp>>, <<CameraRequest>>,
              get_camera_image_result(get_camera_frame_result(resp)))

----------------------------------------------------------------------------
(* Operations the device has no equivalent of *)

\* a call that makes no request and touches no field
Gap(op, args, outcome) == Plain(op, args, <<>>, <<>>, outcome)

IntArgs == {PyInt(0), PyInt(255)}
BoolArgs == {PyBool(TRUE), PyBool(FALSE)}
ListArgs == {PyEmptyList, [t |-> "list", items |-> <<1, 2>>]}
GcodeArgs == {PyStr("G28"), [t |-> "list", items |-> <<"G28", "M104 S200">>]}

camera_client_alive == Gap("camera_client_alive", <<>>, Return(PyBool(FALSE)))
mqtt_client_connected == Gap("mqtt_client_connected", <<>>, Return(PyBool(FALSE)))
mqtt_client_ready == Gap("mqtt_client_ready", <<>>, Return(PyBool(FALSE)))
current_layer_num == Gap("current_layer_num", <<>>, Return(PyInt(0)))
total_layer_num == Gap("total_layer_num", <<>>, Return(PyInt(0)))
camera_start == Gap("camera_start", <<>>, Return(PyBool(FALSE)))
mqtt_start == Gap("mqtt_start", <<>>, Return(PyBool(FALSE)))
mqtt_stop == Gap("mqtt_stop", <<>>, Return(PyNone))
camera_stop == Gap("camera_stop", <<>>, Return(PyNone))
connect == Gap("connect", <<>>, Return(PyNone))
disconnect == Gap("disconnect", <<>>, Return(PyNone))
mqtt_dump == Gap("mqtt_dump", <<>>, Return(PyEmptyDict))
get_chamber_temperature == Gap("get_chamber_temperature", <<>>, Return(PyNone))
nozzle_type == Gap("nozzle_type", <<>>, Return(PyEnum("NozzleType.STAINLESS_STEEL")))
get_light_state == Gap("get_light_state", <<>>, Return(PyStr("Unknown")))
turn_light_on == Gap("turn_light_on", <<>>, Return(PyBool(FALSE)))
turn_light_off == Gap("turn_light_off", <<>>, Return(PyBool(FALSE)))

gcode ==
    \E g \in GcodeArgs, gcode_check \in BoolArgs :
        Gap("gcode", <<g, gcode_check>>, Return(PyBool(FALSE)))

set_bed_temperature ==
    \E temperature \in IntArgs :
        Gap("set_bed_temperature", <<temperature>>, Return(PyBool(FALSE)))

home_printer == Gap("home_printer", <<>>, Return(PyBool(FALSE)))

\* move_z_axis that reports success for a positive height
move_z_axis_accepts ==
    \E height \in IntArgs :
        Gap("move_z_axis", <<height>>, Return(PyBool(height.i > 0)))

move_z_axis ==
    \E height \in IntArgs : Gap("move_z_axis", <<height>>, Return(PyBool(FALSE)))

set_filament_printer ==
    \E color \in {PyStr("FF0000")}, filament \in {PyStr("PLA"), PyStr("PETG")} :
        Gap("set_filament_printer", <<color, filament, PyInt(255), PyInt(254)>>,
            Return(PyBool(FALSE)))

set_nozzle_temperature ==
    \E temperature \in IntArgs :
        Gap("set_nozzle_temperature", <<temperature>>, Return(PyBool(FALSE)))

set_print_speed ==
    \E speed_lvl \in IntArgs :
        Gap("set_print_speed", <<speed_lvl>>, Return(PyBool(FALSE)))

calibrate_printer ==
    \E bed_level \in BoolArgs :
        Gap("calibrate_printer", <<bed_level, PyBool(TRUE), PyBool(TRUE)>>,
            Return(PyBool(FALSE)))

load_filament_spool == Gap("load_filament_spool", <<>>, Return(PyBool(FALSE)))
unload_filament_spool == Gap("unload_filament_spool", <<>>, Return(PyBool(FALSE)))
retry_filament_action == Gap("retry_filament_action", <<>>, Return(PyBool(FALSE)))
get_skipped_objects == Gap("get_skipped_objects", <<>>, Return(PyEmptyList))

skip_objects ==
    \E obj_list \in ListArgs :
        Gap("skip_objects", <<obj_list>>, Return(PyBool(FALSE)))

set_part_fan_speed ==
    \E speed \in IntArgs : Gap("set_part_fan_speed", <<speed>>, Return(PyBool(FALSE)))

set_aux_fan_speed ==
    \E speed \in IntArgs : Gap("set_aux_fan_speed", <<speed>>, Return(PyBool(FALSE)))

set_chamber_fan_speed ==
    \E speed \in IntArgs :
        Gap("set_chamber_fan_speed", <<speed>>, Return(PyBool(FALSE)))

set_auto_step_recovery ==
    \E auto_step_recovery \in BoolArgs :
        Gap("set_auto_step_recovery", <<auto_step_recovery>>, Return(PyBool(FALSE)))

vt_tray == Gap("vt_tray", <<>>, Raise("NotImplementedError"))
ams_hub == Gap("ams_hub", <<>>, Raise("NotImplementedError"))
subtask_name == Gap("subtask_name", <<>>, Return(PyStr("")))
print_error_code == Gap("print_error_code", <<>>, Return(PyInt(0)))
print_type == Gap("print_type", <<>>, Return(PyStr("Unknown")))
wifi_signal == Gap("wifi_signal", <<>>, Return(PyStr("Unknown")))

GapOps ==
    \/ camera_client_alive \/ mqtt_client_connected \/ mqtt_client_ready
    \/ current_layer_num \/ total_layer_num \/ camera_start \/ mqtt_start
    \/ mqtt_stop \/ camera_stop \/ connect \/ disconnect \/ mqtt_dump
    \/ get_chamber_temperature \/ nozzle_type \/ get_light_state
    \/ turn_light_on \/ turn_light_off \/ gcode \/ set_bed_temperature
    \/ home_printer \/ move_z_axis \/ set_filament_printer
    \/ set_nozzle_temperature \/ set_print_speed \/ calibrate_printer
    \/ load_filament_spool \/ unload_filament_spool \/ retry_filament_action
    \/ get_skipped_objects \/ skip_objects \/ set_part_fan_speed
    \/ set_aux_fan_speed \/ set_chamber_fan_speed \/ set_auto_step_recovery
    \/ vt_tray \/ ams_hub \/ subtask_name \/ print_error_code \/ print_type
    \/ wifi_signal

----------------------------------------------------------------------------
(* Specifications *)

StatusGetters(R) ==
    \/ get_time(R)
    \/ get_percentage(R)
    \/ get_state(R)
    \/ get_print_speed(R)
    \/ get_bed_temperature(R)
    \/ get_nozzle_temperature(R)
    \/ get_current_state(R)

JobOps(lookups, answers) ==
    \/ get_file_name(lookups)
    \/ gcode_file(lookups)
    \/ stop_print(lookups, answers)
    \/ pause_print(lookups, answers)
    \/ resume_print(lookups, answers)

FileOps(contents, filenames, paths, answers) ==
    \/ upload_file(contents, filenames, answers)
    \/ start_print(paths, answers)
    \/ delete_file(paths, answers)

CameraOps(R) ==
    \/ get_camera_frame(R)
    \/ get_camera_image(R)

\* every public operation, each with a few answers of the device
Next ==
    \/ StatusGetters(CoreJsonResponses(CoreStatusDocs))
    \/ nozzle_diameter(CoreJsonResponses(CoreInfoDocs))
    \/ JobOps(CoreJsonResponses(CoreJobDocs), CoreActionResponses)
    \/ FileOps({<<>>, <<137>>}, {"a.gcode"}, {"/usb/a.gcode"}, CoreActionResponses)
    \/ CameraOps(CoreCameraResponses)
    \/ GapOps

Spec == Init /\ [][Next]_vars

\* the status getters, with every status document of the model
NextStatus == StatusGetters(JsonResponses(StatusDocs))

SpecStatus == Init /\ [][NextStatus]_vars

\* the job and info operations, with every job and info document
NextJob ==
    \/ JobOps(JsonResponses(JobDocs), ActionResponses)
    \/ nozzle_diameter(JsonResponses(InfoDocs))

SpecJob == Init /\ [][NextJob]_vars

\* the file operations, with every payload and every answer
NextFiles == FileOps(Contents, UploadNames, RemotePaths, ActionResponses)

SpecFiles == Init /\ [][NextFiles]_vars

\* the camera operations, with every snapshot response
NextCamera == CameraOps(CameraResponses)

SpecCamera == Init /\ [][NextCamera]_vars

----------------------------------------------------------------------------
(* Properties *)

\* http://{host}:{port}/api/v1
BaseUrl == "http://" \o ip_address \o ":" \o port \o "/api/v1"

\* the answer to the call's first request
FirstResponse == call.resps[1]

\* a remote-call failure: a transport error or a status outside 2xx
RemoteFailure(resp) ==
    resp.kind = "error" \/ resp.status < 200 \/ resp.status > 299

\* the fetch of a JSON resource gave no document
NoDocument(resp) == RemoteFailure(resp) \/ resp.body = NoJson

GcodeTable ==
    [s \in KnownStates |->
        CASE s = "PRINTING" -> "GcodeState.RUNNING"
          [] s = "PAUSED" -> "GcodeState.PAUSE"
          [] s = "FINISHED" -> "GcodeState.FINISH"
          [] s = "STOPPED" -> "GcodeState.FAILED"
          [] s = "ERROR" -> "GcodeState.FAILED"
          [] s = "IDLE" -> "GcodeState.IDLE"
          [] s = "READY" -> "GcodeState.PREPARE"
          [] s = "BUSY" -> "GcodeState.PREPARE"
          [] s = "ATTENTION" -> "GcodeState.PREPARE"]

PrintTable ==
    [s \in KnownStates |->
        CASE s = "PRINTING" -> "PrintState.PRINTING"
          [] s = "PAUSED" -> "PrintState.PAUSED_USER"
          [] s = "FINISHED" -> "PrintState.IDLE"
          [] s = "STOPPED" -> "PrintState.IDLE"
          [] s = "ERROR" -> "PrintState.UNKNOWN"
          [] s = "IDLE" -> "PrintState.IDLE"
          [] s = "READY" -> "PrintState.IDLE"
          [] s = "BUSY" -> "PrintState.UNKNOWN"
          [] s = "ATTENTION" -> "PrintState.UNKNOWN"]

\* what the claim expects of a state getter for the response it received;
\* table is the column of the getter and unknown its UNKNOWN value
StateGetterExpectation(table, unknown) ==
    LET resp == FirstResponse
    IN IF NoDocument(resp) THEN call.outcome = Return(PyEnum(unknown))
       ELSE LET printer == resp.body.printer
            IN IF printer = Absent THEN call.outcome = Return(PyEnum(unknown))
               ELSE IF printer.t # "obj" THEN TRUE
               ELSE IF printer.state = Absent
               THEN call.outcome = Return(PyEnum(unknown))
               ELSE IF printer.state.t # "str" THEN TRUE
               ELSE IF printer.state.s \in KnownStates
               THEN call.outcome = Return(PyEnum(table[printer.state.s]))
               ELSE call.outcome = Return(PyEnum(unknown))

\* C1: for each of the nine device states get_state and get_current_state
\* return the tabulated pair; for any other state string, an absent state
\* field, an absent printer object or a failed status fetch both return
\* their UNKNOWN value and neither raises.
C1_StateMapping ==
    /\ call.op = "get_state" =>
           StateGetterExpectation(GcodeTable, "GcodeState.UNKNOWN")
    /\ call.op = "get_current_state" =>
           StateGetterExpectation(PrintTable, "PrintState.UNKNOWN")

\* get_state has mapped READY to PREPARE
C1_Witness ==
    /\ call.op = "get_state"
    /\ ~NoDocument(FirstResponse)
    /\ FirstResponse.body.printer.t = "obj"
    /\ FirstResponse.body.printer.state = PyStr("READY")
    /\ call.outcome = Return(PyEnum("GcodeState.PREPARE"))

\* n tenths truncated toward zero is k
TruncatesTo(n, k) ==
    /\ n >= 0 => 10 * k <= n /\ n < 10 * k + 10
    /\ n < 0 => 10 * k >= n /\ n > 10 * k - 10

\* C5: get_percentage returns the progress truncated toward zero whenever the
\* status document has a job object with a progress value, and None when the
\* progress field, the job object or the whole status document is missing.
C5_PercentageTruncated ==
    call.op = "get_percentage" =>
        LET resp == FirstResponse
        IN IF NoDocument(resp) THEN call.outcome = Return(PyNone)
           ELSE LET job == resp.body.job
                IN IF job = Absent THEN call.outcome = Return(PyNone)
                   ELSE IF job.t # "obj" THEN TRUE
                   ELSE IF job.progress = Absent THEN call.outcome = Return(PyNone)
                   ELSE IF job.progress.t # "num" THEN TRUE
                   ELSE /\ call.outcome.kind = "return"
                        /\ call.outcome.value.t = "int"
                        /\ TruncatesTo(job.progress.tenths, call.outcome.value.i)

\* a progress of 47.8 was reported as 47
C5_Witness ==
    /\ call.op = "get_percentage"
    /\ ~NoDocument(FirstResponse)
    /\ FirstResponse.body.job = JobObj(PyNum(478), PyInt(60))
    /\ call.outcome = Return(PyInt(47))

JobOpNames ==
    {"get_file_name", "gcode_file", "stop_print", "pause_print", "resume_print"}

JobCommandNames == {"stop_print", "pause_print", "resume_print"}

\* C2: a job fetch answered with 204 is reported as "no active job" and is
\* distinguishable from a job fetch that failed: what the fetch reports after
\* a failure differs from what it reports after a 204.
C2_NoJobDistinctFromFailure ==
    (call.op \in JobOpNames /\ RemoteFailure(FirstResponse)) =>
        call.fetched # fetch_job_data(Http(204, "", NoJson)).ret

\* C3: when the job lookup of stop_print, pause_print or resume_print is
\* answered with 204, the call returns False and its only request is the
\* GET /job lookup.
C3_NoJobNoAction ==
    (/\ call.op \in JobCommandNames
     /\ FirstResponse.kind = "http"
     /\ FirstResponse.status = 204) =>
        /\ call.outcome = Return(PyBool(FALSE))
        /\ Len(call.reqs) = 1
        /\ call.reqs[1].method = "GET"
        /\ call.reqs[1].url = BaseUrl \o "/job"
        /\ \A i \in DOMAIN call.reqs : call.reqs[i].method \notin {"DELETE", "PUT"}

\* pause_print met "no active job" and made the lookup only
C3_Witness ==
    /\ call.op = "pause_print"
    /\ FirstResponse = Http(204, "", NoJson)
    /\ call.outcome = Return(PyBool(FALSE))
    /\ Len(call.reqs) = 1

\* C4: upload_file issues one PUT to /api/v1/files/usb/{filename} and returns
\* "/usb/{filename}" exactly when the response status is 201; for every other
\* status and for a transport error it returns "" and does not raise.
C4_UploadResult ==
    call.op = "upload_file" =>
        LET filename == call.args[2].s
            answer == FirstResponse
        IN /\ Len(call.reqs) = 1
           /\ call.reqs[1].method = "PUT"
           /\ call.reqs[1].url = BaseUrl \o "/files/usb/" \o filename
           /\ call.outcome.kind = "return"
           /\ (call.outcome.value = PyStr("/usb/" \o filename))
                <=> (answer.kind = "http" /\ answer.status = 201)
           /\ ~(answer.kind = "http" /\ answer.status = 201)
                => call.outcome.value = PyStr("")

\* an upload answered with 201 returned the remote path
C4_Witness ==
    /\ call.op = "upload_file"
    /\ FirstResponse.kind = "http"
    /\ FirstResponse.status = 201
    /\ call.args[2] = PyStr("a.gcode")
    /\ call.outcome = Return(PyStr("/usb/a.gcode"))

BooleanGaps ==
    {"camera_client_alive", "mqtt_client_connected", "mqtt_client_ready",
     "camera_start", "mqtt_start", "turn_light_on", "turn_light_off", "gcode",
     "set_bed_temperature", "home_printer", "move_z_axis",
     "set_filament_printer", "set_nozzle_temperature", "set_print_speed",
     "calibrate_printer", "load_filament_spool", "unload_filament_spool",
     "retry_filament_action", "skip_objects", "set_part_fan_speed",
     "set_aux_fan_speed", "set_chamber_fan_speed", "set_auto_step_recovery"}

CountGaps == {"current_layer_num", "total_layer_num", "print_error_code"}

DescriptiveGaps == {"get_light_state", "print_type", "wifi_signal"}

NoneGaps ==
    {"mqtt_stop", "camera_stop", "connect", "disconnect",
     "get_chamber_temperature"}

RaisingGaps == {"vt_tray", "ams_hub"}

GapNames ==
    BooleanGaps \cup CountGaps \cup DescriptiveGaps \cup NoneGaps
    \cup RaisingGaps
    \cup {"get_skipped_objects", "mqtt_dump", "subtask_name", "nozzle_type"}

\* the neutral value of a capability-gap operation, by its return type
NeutralOf(op) ==
    CASE op \in BooleanGaps -> PyBool(FALSE)
      [] op \in CountGaps -> PyInt(0)
      [] op \in DescriptiveGaps -> PyStr("Unknown")
      [] op \in NoneGaps -> PyNone
      [] op = "get_skipped_objects" -> PyEmptyList
      [] op = "mqtt_dump" -> PyEmptyDict
      [] op = "subtask_name" -> PyStr("")
      [] op = "nozzle_type" -> PyEnum("NozzleType.STAINLESS_STEEL")

\* C6: every capability-gap operation returns the same type-appropriate
\* neutral value for every argument value and in every adapter state, makes
\* no request and never raises; vt_tray and ams_hub are the only two gap
\* operations that raise NotImplementedError.
C6_GapsNeutral ==
    call.op \in GapNames =>
        /\ call.reqs = <<>>
        /\ call.op \notin RaisingGaps => call.outcome = Return(NeutralOf(call.op))
        /\ call.op \in RaisingGaps => call.outcome = Raise("NotImplementedError")

\* move_z_axis was called with a non-zero height on an adapter that holds a
\* status snapshot, and returned False
C6_Witness ==
    /\ call.op = "move_z_axis"
    /\ call.args = <<PyInt(255)>>
    /\ last_status_data # PyNone
    /\ call.outcome = Return(PyBool(FALSE))

\* the value an operation gives when its remote call fails
FailureValue(op) ==
    CASE op \in {"get_time", "get_percentage", "get_bed_temperature",
                 "get_nozzle_temperature"} -> PyNone
      [] op = "get_state" -> PyEnum("GcodeState.UNKNOWN")
      [] op = "get_current_state" -> PyEnum("PrintState.UNKNOWN")
      [] op = "get_print_speed" -> PyInt(0)
      [] op = "nozzle_diameter" -> PyNum(0)
      [] op \in {"get_file_name", "gcode_file", "upload_file", "delete_file",
                 "get_camera_frame"} -> PyStr("")
      [] op \in {"start_print", "stop_print", "pause_print", "resume_print"}
            -> PyBool(FALSE)

\* C7: remote-call failures (transport error, non-2xx status) are absorbed:
\* after any sequence of operations, a call of any public operation other
\* than get_camera_image, vt_tray and ams_hub in which a remote call failed
\* returns its failure value and propagates no exception.
C7_FailuresAbsorbed ==
    (/\ call.op \notin {"__init__", "get_camera_image", "vt_tray", "ams_hub"}
     /\ \E i \in DOMAIN call.resps : RemoteFailure(call.resps[i])) =>
        call.outcome = Return(FailureValue(call.op))

\* delete_file met a transport error and returned the empty string
C7_Witness ==
    /\ call.op = "delete_file"
    /\ FirstResponse.kind = "error"
    /\ call.outcome = Return(PyStr(""))

TelemetryGetters ==
    {"get_state", "get_current_state", "get_percentage", "get_time",
     "get_print_speed", "get_bed_temperature", "get_nozzle_temperature",
     "nozzle_diameter", "get_file_name"}

\* C8: when the device answers two consecutive calls of the same telemetry
\* getter with the same response, both calls return the same result,
\* whatever was executed before them.
C8_GettersIdempotent ==
    [][(/\ call'.op \in TelemetryGetters
        /\ call'.op = call.op
        /\ call'.resps = call.resps) => call'.outcome = call.outcome]_vars

\* get_state was answered twice in a row with the same document
C8_Witness ==
    /\ repeated
    /\ call.op = "get_state"
    /\ call.outcome = Return(PyEnum("GcodeState.RUNNING"))

\* C9: get_camera_image raises the "no frame available" error and returns
\* no image whenever its frame retrieval yields the empty string (non-200
\* status, wrong content type or transport error).
C9_NoFrameRaises ==
    call.op = "get_camera_image" =>
        LET resp == FirstResponse
        IN (\/ resp.kind = "error"
            \/ resp.status # 200
            \/ resp.ctype \notin {"image/png", "image/png; charset=binary"}
            \/ get_camera_frame_result(resp) = PyStr("")) =>
               call.outcome = Raise("ValueError")

\* get_camera_image was answered with a 200 of the wrong content type
C9_Witness ==
    /\ call.op = "get_camera_image"
    /\ FirstResponse = Http(200, "image/jpeg", PyBytes(<<137>>))
    /\ call.outcome = Raise("ValueError")

StatusGetterNames ==
    {"get_state", "get_current_state", "get_percentage", "get_time",
     "get_print_speed", "get_bed_temperature", "get_nozzle_temperature"}

\* the snapshot of the resource that op fetches
SnapshotOf(op, st, jb, nf) ==
    IF op \in StatusGetterNames THEN st
    ELSE IF op \in JobOpNames THEN jb
    ELSE nf

\* the fetch of op was answered with a document or, for a job, with 204
FetchSucceeded(op, resp) ==
    \/ ~NoDocument(resp)
    \/ op \in JobOpNames /\ resp.kind = "http" /\ resp.status = 204

\* C10 as stated: after any call of a fetch the cached snapshot of that
\* resource equals the value the fetch returned to its caller.
C10_EveryFetchOverwrites ==
    call.fetched # Absent =>
        SnapshotOf(call.op, last_status_data, last_job_data, last_info_data)
            = call.fetched

\* C10 amended: a fetch that succeeds overwrites the snapshot of its resource
\* with the value it returns (the parsed document, or None after a 204 job
\* fetch); a fetch that fails returns None and leaves the snapshot as it was.
C10_SuccessfulFetchOverwrites ==
    [][call'.fetched # Absent =>
        LET resp == call'.resps[1]
            before == SnapshotOf(call'.op, last_status_data, last_job_data,
                                 last_info_data)
            after == SnapshotOf(call'.op, last_status_data', last_job_data',
                                last_info_data')
        IN IF FetchSucceeded(call'.op, resp)
           THEN /\ after = call'.fetched
                /\ call'.fetched = IF resp.body = NoJson THEN PyNone ELSE resp.body
           ELSE /\ call'.fetched = PyNone
                /\ after = before]_vars

\* a status fetch failed after an earlier one had filled the snapshot
C10_Witness ==
    /\ call.op \in StatusGetterNames
    /\ RemoteFailure(FirstResponse)
    /\ call.fetched = PyNone
    /\ last_status_data # PyNone

\* the action requests stop_print, pause_print and resume_print may issue
JobActionRequests ==
    {Request(m.method, BaseUrl \o "/job/" \o ToString(id) \o m.suffix,
             headers, Absent) :
        id \in 1..MaxJobId,
        m \in {[method |-> "DELETE", suffix |-> ""],
               [method |-> "PUT", suffix |-> "/pause"],
               [method |-> "PUT", suffix |-> "/resume"]}}

\* C11: every public operation issues at most one HTTP request per call,
\* except stop_print, pause_print and resume_print, which issue at most two,
\* the GET /job lookup first and the action request second; capability-gap
\* operations issue none; get_camera_image and gcode_file issue exactly the
\* one request of the getter they delegate to.
C11_RequestBudget ==
    /\ Len(call.resps) = Len(call.reqs)
    /\ call.op \in GapNames => Len(call.reqs) = 0
    /\ call.op \notin JobCommandNames => Len(call.reqs) <= 1
    /\ call.op \in JobCommandNames =>
           /\ Len(call.reqs) \in {1, 2}
           /\ call.reqs[1] = Request("GET", BaseUrl \o "/job", headers, Absent)
           /\ Len(call.reqs) = 2 => call.reqs[2] \in JobActionRequests
    /\ call.op = "get_camera_image" =>
           call.reqs = <<Request("GET", BaseUrl \o "/cameras/snap", headers, Absent)>>
    /\ call.op = "gcode_file" =>
           call.reqs = <<Request("GET", BaseUrl \o "/job", headers, Absent)>>

\* stop_print made its two requests: the lookup, then the DELETE
C11_Witness ==
    /\ call.op = "stop_print"
    /\ Len(call.reqs) = 2
    /\ call.reqs[1].method = "GET"
    /\ call.reqs[2].method = "DELETE"

\* the lookup of a job command was answered with the document of a job that
\* has an identifier
JobActive == ~NoDocument(FirstResponse) /\ FirstResponse.body.id # Absent

\* the method and the path below /job/{id} of each job command
JobActionOf(op) ==
    CASE op = "stop_print" -> [method |-> "DELETE", suffix |-> ""]
      [] op = "pause_print" -> [method |-> "PUT", suffix |-> "/pause"]
      [] op = "resume_print" -> [method |-> "PUT", suffix |-> "/resume"]

\* the answer has status 204
Answered204(resp) == resp.kind = "http" /\ resp.status = 204

\* C12: with an active job of identifier id (taken from the document the
\* lookup of the same call returned) stop_print issues DELETE /job/{id},
\* pause_print PUT /job/{id}/pause and resume_print PUT /job/{id}/resume;
\* start_print(filename) issues POST /files/usb{filename} and
\* delete_file(path) DELETE /files/usb{path}.  Each of the four boolean
\* commands returns True exactly when its action response has status 204;
\* delete_file returns the path exactly when the status is 204 and ""
\* otherwise; start_print's request and result are fixed by filename and
\* answer alone, whatever the other five arguments are.
C12_CommandRequests ==
    /\ (call.op \in JobCommandNames /\ JobActive) =>
           /\ Len(call.reqs) = 2
           /\ call.reqs[2] =
                  Request(JobActionOf(call.op).method,
                          BaseUrl \o "/job/" \o ToString(FirstResponse.body.id.i)
                              \o JobActionOf(call.op).suffix,
                          headers, Absent)
           /\ call.outcome = Return(PyBool(Answered204(call.resps[2])))
    /\ (call.op \in JobCommandNames /\ ~JobActive) =>
           call.outcome = Return(PyBool(FALSE))
    /\ call.op = "start_print" =>
           /\ call.reqs = <<Request("POST", BaseUrl \o "/files/usb" \o call.args[1].s,
                                    headers, Absent)>>
           /\ call.outcome = Return(PyBool(Answered204(FirstResponse)))
    /\ call.op = "delete_file" =>
           /\ call.reqs = <<Request("DELETE",
                                    BaseUrl \o "/files/usb" \o call.args[1].s,
                                    headers, Absent)>>
           /\ call.outcome =
                  IF Answered204(FirstResponse) THEN Return(call.args[1])
                  ELSE Return(PyStr(""))

\* resume_print found the job with the highest identifier, resumed it with a
\* PUT that was answered 204, and returned True
C12_Witness ==
    /\ call.op = "resume_print"
    /\ JobActive
    /\ FirstResponse.body.id = PyInt(MaxJobId)
    /\ call.reqs[2].method = "PUT"
    /\ call.reqs[2].url = BaseUrl \o "/job/" \o ToString(MaxJobId) \o "/resume"
    /\ Answered204(call.resps[2])
    /\ call.outcome = Return(PyBool(TRUE))

\* the value of field in the object obj of the document the call fetched,
\* Absent when the fetch failed or the object or the field is not there
FetchedField(obj, field) ==
    IF NoDocument(FirstResponse) THEN Absent
    ELSE LET o == FirstResponse.body[obj]
         IN IF o.t = "obj" THEN o[field] ELSE Absent

\* the status document of the call has a printer that is JSON null
PrinterIsNull ==
    ~NoDocument(FirstResponse) /\ FirstResponse.body.printer = PyNone

\* the nozzle diameter in the info document of the call
FetchedDiameter ==
    IF NoDocument(FirstResponse) THEN Absent
    ELSE FirstResponse.body.nozzle_diameter

\* what a temperature or time getter makes of the field: its value as it is
AsIs(field) == IF field = Absent THEN PyNone ELSE field

\* the outcome is the number v as an integer
IsIntOf(v) ==
    /\ call.outcome.kind = "return"
    /\ call.outcome.value.t = "int"
    /\ IF v.t = "int" THEN call.outcome.value.i = v.i
       ELSE TruncatesTo(v.tenths, call.outcome.value.i)

\* the outcome is the number v as a float
IsFloatOf(v) ==
    /\ call.outcome.kind = "return"
    /\ call.outcome.value.t = "num"
    /\ call.outcome.value.tenths = IF v.t = "int" THEN 10 * v.i ELSE v.tenths

\* C13: each numeric telemetry getter returns its default, without raising,
\* whenever the field or the object that holds it is absent from the fetched
\* document or the fetch failed (get_bed_temperature, get_nozzle_temperature
\* and get_time: None; get_print_speed: 0; nozzle_diameter: 0.0); when the
\* field is present the getter returns its value, the speed as an integer
\* and the diameter as a float.
C13_NumericDefaults ==
    /\ (call.op = "get_bed_temperature" /\ ~PrinterIsNull) =>
           call.outcome = Return(AsIs(FetchedField("printer", "temp_bed")))
    /\ (call.op = "get_nozzle_temperature" /\ ~PrinterIsNull) =>
           call.outcome = Return(AsIs(FetchedField("printer", "temp_nozzle")))
    /\ call.op = "get_time" =>
           call.outcome = Return(AsIs(FetchedField("job", "time_remaining")))
    /\ (call.op = "get_print_speed" /\ ~PrinterIsNull) =>
           LET speed == FetchedField("printer", "speed")
           IN IF speed \in {Absent, PyNone} THEN call.outcome = Return(PyInt(0))
              ELSE IsIntOf(speed)
    /\ call.op = "nozzle_diameter" =>
           IF FetchedDiameter \in {Absent, PyNone}
           THEN call.outcome = Return(PyNum(0))
           ELSE IsFloatOf(FetchedDiameter)

\* get_print_speed fetched a status document whose printer object carries
\* no speed, and returned 0
C13_Witness ==
    /\ call.op = "get_print_speed"
    /\ ~NoDocument(FirstResponse)
    /\ FirstResponse.body.printer.t = "obj"
    /\ FirstResponse.body.printer.speed = Absent
    /\ call.outcome = Return(PyInt(0))

\* the content types that name the image format of the snapshot endpoint
\* (GET /cameras/snap: 200, content-type image/png)
ImageContentTypes == {"image/png", "image/png; charset=binary"}

\* text is the transport-safe encoding of bytes: whole groups of four
\* characters of the Base64 alphabet that decode to bytes
EncodingOf(text, bytes) ==
    IF bytes = <<>> THEN text = PyStr("")
    ELSE /\ text.t = "b64str"
         /\ Len(text.chars) % 4 = 0
         /\ \A i \in DOMAIN text.chars : text.chars[i] \in 0..64
         /\ b64decode(text.chars) = bytes

\* C14: get_camera_frame returns the encoded bytes of the snapshot response
\* exactly when the GET /cameras/snap response has status 200 and an image
\* content type; for any other status, a wrong content type (also when the
\* response has no Content-Type header) or a transport error it returns the
\* empty string; it never raises.
C14_FrameIffImage ==
    call.op = "get_camera_frame" =>
        LET resp == FirstResponse
        IN /\ call.reqs = <<Request("GET", BaseUrl \o "/cameras/snap", headers, Absent)>>
           /\ call.outcome.kind = "return"
           /\ IF /\ resp.kind = "http"
                 /\ resp.status = 200
                 /\ resp.ctype \in ImageContentTypes
              THEN EncodingOf(call.outcome.value, resp.body.bytes)
              ELSE call.outcome.value = PyStr("")

\* a two-byte snapshot answered with 200 and "image/png; charset=binary" came
\* back as four characters of Base64 text
C14_Witness ==
    /\ call.op = "get_camera_frame"
    /\ FirstResponse = Http(200, "image/png; charset=binary", PyBytes(<<137, 80>>))
    /\ call.outcome.value.t = "b64str"
    /\ Len(call.outcome.value.chars) = 4

\* the document the first response of the call carries, None when it
\* carries none
Received == IF NoDocument(FirstResponse) THEN PyNone ELSE FirstResponse.body

\* what a getter makes of a document
ResultOf(op, doc) ==
    CASE op = "get_time" -> get_time_result(doc)
      [] op = "get_percentage" -> get_percentage_result(doc)
      [] op = "get_state" -> get_state_result(doc)
      [] op = "get_current_state" -> get_current_state_result(doc)
      [] op = "get_print_speed" -> get_print_speed_result(doc)
      [] op = "get_bed_temperature" -> get_bed_temperature_result(doc)
      [] op = "get_nozzle_temperature" -> get_nozzle_temperature_result(doc)
      [] op = "nozzle_diameter" -> nozzle_diameter_result(doc)
      [] op \in {"get_file_name", "gcode_file"} -> get_file_name_result(doc)

\* the path of the resource a getter reads
ResourceOf(op) ==
    IF op \in StatusGetterNames THEN "/status"
    ELSE IF op = "nozzle_diameter" THEN "/info"
    ELSE "/job"

\* the outcome and the requests of the call are those that its arguments and
\* the responses it received fix, whatever the three snapshots held
FixedByResponses ==
    CASE call.op \in StatusGetterNames \cup {"nozzle_diameter", "get_file_name",
                                             "gcode_file"} ->
            /\ call.outcome = ResultOf(call.op, Received)
            /\ call.reqs = <<Request("GET", BaseUrl \o ResourceOf(call.op),
                                     headers, Absent)>>
      [] call.op \in JobCommandNames ->
            IF Received # PyNone /\ Received.id # Absent
            THEN /\ Len(call.reqs) = 2
                 /\ call.reqs[2].url =
                        BaseUrl \o "/job/" \o ToString(Received.id.i)
                            \o JobActionOf(call.op).suffix
                 /\ call.outcome = Return(PyBool(Answered204(call.resps[2])))
            ELSE /\ Len(call.reqs) = 1
                 /\ call.outcome = Return(PyBool(FALSE))
      [] call.op = "upload_file" ->
            call.outcome = upload_file_result(call.args[2].s, FirstResponse)
      [] call.op = "start_print" ->
            call.outcome = Return(PyBool(Answered204(FirstResponse)))
      [] call.op = "delete_file" ->
            call.outcome = delete_file_result(call.args[1].s, FirstResponse)
      [] call.op = "get_camera_frame" ->
            call.outcome = Return(get_camera_frame_result(FirstResponse))
      [] call.op = "get_camera_image" ->
            call.outcome =
                get_camera_image_result(get_camera_frame_result(FirstResponse))
      [] call.op \in GapNames \ RaisingGaps ->
            call.outcome = Return(NeutralOf(call.op))
      [] OTHER -> TRUE

\* C15: no public operation serves a result or chooses a request from a
\* cached snapshot: outcome and requests of every call are fixed by the
\* responses received during that call.  In particular a call whose fetch
\* fails returns the neutral value (get_state UNKNOWN, get_file_name "",
\* get_percentage None) and stop_print, pause_print and resume_print whose
\* job lookup fails return False and issue no action request, whatever
\* earlier fetches have left in the snapshots.
C15_NothingServedFromCache ==
    /\ FixedByResponses
    /\ (call.op = "get_state" /\ NoDocument(FirstResponse)) =>
           call.outcome = Return(PyEnum("GcodeState.UNKNOWN"))
    /\ (call.op = "get_file_name" /\ NoDocument(FirstResponse)) =>
           call.outcome = Return(PyStr(""))
    /\ (call.op = "get_percentage" /\ NoDocument(FirstResponse)) =>
           call.outcome = Return(PyNone)
    /\ (call.op \in JobCommandNames /\ NoDocument(FirstResponse)) =>
           /\ call.outcome = Return(PyBool(FALSE))
           /\ Len(call.reqs) = 1
           /\ call.reqs[1].method = "GET"

\* the job lookup of stop_print failed while the snapshot held a job with an
\* identifier: the call returned False and made the lookup only
C15_Witness ==
    /\ call.op = "stop_print"
    /\ RemoteFailure(FirstResponse)
    /\ last_job_data # PyNone
    /\ last_job_data.id # Absent
    /\ call.outcome = Return(PyBool(FALSE))
    /\ Len(call.reqs) = 1

\* the snapshots that a call of op must leave alone did not change
OtherSnapshotsKept(op) ==
    /\ op \in StatusGetterNames =>
           last_job_data' = last_job_data /\ last_info_data' = last_info_data
    /\ op \in JobOpNames =>
           last_status_data' = last_status_data /\ last_info_data' = last_info_data
    /\ op = "nozzle_diameter" =>
           last_status_data' = last_status_data /\ last_job_data' = last_job_data
    /\ op \in GapNames =>
           /\ last_status_data' = last_status_data
           /\ last_job_data' = last_job_data
           /\ last_info_data' = last_info_data

\* C16: after any sequence of public operations host, port, API key, serial
\* and the shared header set are as construction left them, and every
\* request carries X-Api-Key equal to the access code; upload_file adds
\* Content-Length and Content-Type to a copy for its own request only, so
\* that no request of another operation carries them, also after an upload.
\* Capability-gap operations leave the three snapshots unchanged, and a
\* fetch of one resource leaves the snapshots of the other two unchanged.
C16_FrameEffects ==
    [][/\ config' = config
       /\ headers' = ("X-Api-Key" :> access_code')
       /\ \A i \in DOMAIN call'.reqs :
              LET h == call'.reqs[i].headers
              IN /\ "X-Api-Key" \in DOMAIN h
                 /\ h["X-Api-Key"] = access_code'
                 /\ DOMAIN h =
                        IF call'.op = "upload_file"
                        THEN {"X-Api-Key", "Content-Length", "Content-Type"}
                        ELSE {"X-Api-Key"}
       /\ OtherSnapshotsKept(call'.op)]_vars

\* after an upload, delete_file sent a request whose only header is the API
\* key, and the shared header set is the one of construction
C16_Witness ==
    /\ uploaded
    /\ call.op = "delete_file"
    /\ Len(call.reqs) = 1
    /\ DOMAIN call.reqs[1].headers = {"X-Api-Key"}
    /\ call.reqs[1].headers["X-Api-Key"] = access_code
    /\ headers = ("X-Api-Key" :> access_code)

====
